---- MODULE Spec2Model ----
(***************************************************************************)
(* Model of johnmartinello/recommender: the two record stores              *)
(* (app/database/vector_db.py VectorDB, app/database/vector_store.py       *)
(* VectorStore), their search query builders, upsert, delete, the lazily   *)
(* loaded embedding model and the search_movies driver                     *)
(* (app/similarity_search.py).                                             *)
(*                                                                         *)
(* Text is a sequence of one-character strings.  A bound parameter is a    *)
(* record [kind, str, nums]: kind "text" carries a string in str, kind     *)
(* "list" a python list of numbers in nums, kind "int" one integer in      *)
(* nums.  The SQL text is a sequence of clauses [cl, key, ph], ph being    *)
(* the number of %s placeholders the clause's text holds.                  *)
(***************************************************************************)
EXTENDS Integers, Sequences, FiniteSets, TLC

VARIABLES table, nextId, call, hasModel, loads, tpc,
          queries, qidx, spc, conn, openConns, connSeq, reqs

vars == <<table, nextId, call, hasModel, loads, tpc,
          queries, qidx, spc, conn, openConns, connSeq, reqs>>

storeVars == <<table, nextId>>
modelVars == <<hasModel, loads, tpc>>
driverVars == <<queries, qidx, spc, conn, openConns, connSeq, reqs>>

(***************************************************************************)
(* Bounds of the model.                                                    *)
(***************************************************************************)
MaxKeys == 2        \* entries in one metadata filter map
MaxLimit == 2       \* largest limit passed to search
MaxRows == 3        \* rows the embeddings table may hold
MaxBatch == 2       \* rows in one upserted DataFrame
MaxQueries == 2     \* queries handed to search_movies
NumThreads == 2     \* concurrent callers of get_embedding_local

Range(s) == {s[i] : i \in 1..Len(s)}

Min(a, b) == IF a <= b THEN a ELSE b

RECURSIVE SumSeq(_)
SumSeq(s) == IF s = <<>> THEN 0 ELSE Head(s) + SumSeq(Tail(s))

(***************************************************************************)
(* Python string operations used by the builders.                          *)
(***************************************************************************)
RECURSIVE Split(_)
Split(s) ==
    IF \A i \in 1..Len(s) : s[i] # ","
    THEN <<s>>
    ELSE LET k == CHOOSE i \in 1..Len(s) :
                      s[i] = "," /\ \A j \in 1..(i - 1) : s[j] # ","
         IN  <<SubSeq(s, 1, k - 1)>> \o Split(SubSeq(s, k + 1, Len(s)))

RECURSIVE Strip(_)
Strip(s) ==
    IF s # <<>> /\ Head(s) = " " THEN Strip(Tail(s))
    ELSE IF s # <<>> /\ s[Len(s)] = " " THEN Strip(SubSeq(s, 1, Len(s) - 1))
    ELSE s

StripAll(parts) == [i \in 1..Len(parts) |-> Strip(parts[i])]

\* text.replace("\n", " ")
ReplaceNewlines(text) ==
    [i \in 1..Len(text) |-> IF text[i] = "\n" THEN " " ELSE text[i]]

RECURSIVE JoinComma(_)
JoinComma(parts) ==
    IF parts = <<>> THEN <<>>
    ELSE IF Len(parts) = 1 THEN <<Head(parts)>>
    ELSE <<Head(parts), ",">> \o JoinComma(Tail(parts))

PadTwo(n) == IF n < 10 THEN "0" \o ToString(n) ELSE ToString(n)

(***************************************************************************)
(* Bound parameters.                                                       *)
(***************************************************************************)
TextParam(s) == [kind |-> "text", str |-> s, nums |-> <<>>]
ListParam(l) == [kind |-> "list", str |-> <<>>, nums |-> l]
IntParam(n) == [kind |-> "int", str |-> <<>>, nums |-> <<n>>]

\* '[' + ','.join(map(str, query_embedding)) + ']'
VectorStr(e) ==
    <<"[">> \o JoinComma([i \in 1..Len(e) |-> ToString(e[i])]) \o <<"]">>

\* f"%{term}%"
LikePattern(term) == <<"%">> \o term \o <<"%">>

\* strftime('%Y-%m-%d') of a timestamp
DateStr(y, m, d) == <<ToString(y), "-", PadTwo(m), "-", PadTwo(d)>>

\* datetime.isoformat() of a datetime at midnight
IsoFormat(dt) == DateStr(dt.y, dt.m, dt.d) \o <<"T00:00:00">>

(***************************************************************************)
(* SQL clauses.                                                            *)
(***************************************************************************)
Clause(c, k, n) == [cl |-> c, key |-> k, ph |-> n]

SelectDB == Clause("SELECT id,title,metadata,contents,1-(embedding<=>%s::vector) FROM embeddings WHERE TRUE", "", 1)
SelectStore == Clause("SELECT id,metadata,contents,1-(embedding<=>%s::vector) FROM embeddings WHERE TRUE", "", 1)
IlikeClause(k, n) == Clause("AND (metadata->>key ILIKE %s OR ...)", k, n)
LangClause == Clause("AND metadata->>'original_language' = %s", "original_language", 1)
BetweenClause(field) == Clause("AND (metadata->>field)::timestamp BETWEEN %s AND %s", field, 2)
OrderLimitClause == Clause("ORDER BY embedding <=> %s::vector LIMIT %s", "", 2)

Placeholders(sql) == SumSeq([i \in 1..Len(sql) |-> sql[i].ph])

(***************************************************************************)
(* VectorDB._format_time_range: each bound goes through                    *)
(* pd.to_datetime(f"{year}-01-01"), which raises on a non-numeric year.    *)
(* Nothing compares the two years.                                         *)
(***************************************************************************)
Year(n) == [num |-> TRUE, y |-> n]
NotAYear == [num |-> FALSE, y |-> 0]

MutFormatTimeRange(time_range) ==
    IF time_range[1].num /\ time_range[2].num
    THEN [ok |-> TRUE,
          start_date |-> DateStr(time_range[1].y, 1, 1),
          end_date |-> DateStr(time_range[2].y, 1, 1)]
    ELSE [ok |-> FALSE, start_date |-> <<>>, end_date |-> <<>>]

_format_time_range(time_range) ==
    IF time_range[1].num /\ time_range[2].num
    THEN [ok |-> TRUE,
          start_date |-> DateStr(time_range[1].y, 1, 1),
          end_date |-> DateStr(time_range[2].y, 12, 31)]
    ELSE [ok |-> FALSE, start_date |-> <<>>, end_date |-> <<>>]

(***************************************************************************)
(* The filter loops.  A metadata map is the sequence of its items in       *)
(* insertion order, each [key, sval, tr].  The accumulator is              *)
(* [sql, params, ok].                                                      *)
(***************************************************************************)
Item(k, s, t) == [key |-> k, sval |-> s, tr |-> t]

\* terms = [term.strip() for term in value.split(',')]
Terms(value) == StripAll(Split(value))

MutTermsClause(acc, key, value) ==
    LET terms == Terms(value)
    IN  IF terms # <<>>
        THEN [acc EXCEPT
                !.sql = @ \o <<IlikeClause(key, Len(terms))>>,
                !.params = @ \o <<TextParam(LikePattern(terms[Len(terms)]))>>]
        ELSE acc

TermsClause(acc, key, value) ==
    LET terms == Terms(value)
    IN  IF terms # <<>>
        THEN [acc EXCEPT
                !.sql = @ \o <<IlikeClause(key, Len(terms))>>,
                !.params = @ \o [i \in 1..Len(terms) |->
                                    TextParam(LikePattern(terms[i]))]]
        ELSE acc

LanguageClause(acc, value) ==
    [acc EXCEPT !.sql = @ \o <<LangClause>>,
                !.params = @ \o <<TextParam(value)>>]

TimeRangeClauseDB(acc, value) ==
    LET f == _format_time_range(value)
    IN  IF f.ok
        THEN [acc EXCEPT
                !.sql = @ \o <<BetweenClause("release_date")>>,
                !.params = @ \o <<TextParam(f.start_date),
                                  TextParam(f.end_date)>>]
        ELSE [acc EXCEPT !.ok = FALSE]

\* one iteration of the loop of VectorDB.search: three independent ifs
ItemDB(acc, it) ==
    LET a1 == IF it.key \in {"genres", "keywords"}
              THEN TermsClause(acc, it.key, it.sval) ELSE acc
        a2 == IF it.key = "original_language"
              THEN LanguageClause(a1, it.sval) ELSE a1
    IN  IF it.key = "time_range" THEN TimeRangeClauseDB(a2, it.tr) ELSE a2

\* one iteration of the loop of VectorStore.search: if / elif
ItemStore(acc, it) ==
    IF it.key = "original_language" THEN LanguageClause(acc, it.sval)
    ELSE IF it.key \in {"genres", "keywords"}
         THEN TermsClause(acc, it.key, it.sval)
         ELSE acc

RECURSIVE LoopDB(_, _)
LoopDB(acc, metadata) ==
    IF metadata = <<>> \/ ~acc.ok THEN acc
    ELSE LoopDB(ItemDB(acc, Head(metadata)), Tail(metadata))

RECURSIVE LoopStore(_, _)
LoopStore(acc, metadata) ==
    IF metadata = <<>> THEN acc
    ELSE LoopStore(ItemStore(acc, Head(metadata)), Tail(metadata))

\* ORDER BY ... LIMIT: params.extend([query_embedding, limit])
OrderLimit(acc, query_embedding, limit) ==
    [acc EXCEPT !.sql = @ \o <<OrderLimitClause>>,
                !.params = @ \o <<ListParam(query_embedding),
                                  IntParam(limit)>>]

\* VectorDB.search, from the first params = [...] to params.extend
BuildDB(query_embedding, limit, metadata) ==
    LET acc0 == [sql |-> <<SelectDB>>,
                 params |-> <<TextParam(VectorStr(query_embedding))>>,
                 ok |-> TRUE]
        acc1 == LoopDB(acc0, metadata)
    IN  IF acc1.ok THEN OrderLimit(acc1, query_embedding, limit) ELSE acc1

TimeRangeClauseStore(acc, time_range) ==
    IF time_range # <<>>
    THEN [acc EXCEPT
            !.sql = @ \o <<BetweenClause("created_at")>>,
            !.params = @ \o <<TextParam(IsoFormat(time_range[1])),
                              TextParam(IsoFormat(time_range[2]))>>]
    ELSE acc

\* VectorStore.search, from the first params = [...] to params.extend
BuildStore(query_embedding, limit, metadata_filter, time_range) ==
    LET acc0 == [sql |-> <<SelectStore>>,
                 params |-> <<TextParam(VectorStr(query_embedding))>>,
                 ok |-> TRUE]
        acc1 == LoopStore(acc0, metadata_filter)
        acc2 == TimeRangeClauseStore(acc1, time_range)
    IN  OrderLimit(acc2, query_embedding, limit)

(***************************************************************************)
(* The embeddings table and how the store evaluates the statement that     *)
(* cur.execute(sql_query, params) sends: every placeholder is bound in     *)
(* order, the WHERE conjuncts select rows, ORDER BY sorts them by cosine   *)
(* distance to its vector (ties in any order), LIMIT truncates.            *)
(* A row is [id, title, metadata, contents, embedding]; metadata is        *)
(* [genres, keywords, original_language, release_date, created_at], a      *)
(* date field of <<>> being an absent key.                                 *)
(***************************************************************************)
CompRange == -3..3
YearRange == 1950..2030

ParseNum(s) == CHOOSE v \in CompRange : ToString(v) = s

\* text -> vector: '[' x ',' y ... ']'
ParseVectorText(str) ==
    [i \in 1..((Len(str) - 1) \div 2) |-> ParseNum(str[2 * i])]

\* the value of a bound vector parameter after ::vector
DecodeVector(p) ==
    IF p.kind = "text" THEN ParseVectorText(p.str) ELSE p.nums

\* text -> timestamp, as a number that orders like the calendar
ParseDate(str) ==
    LET y == CHOOSE v \in YearRange : ToString(v) = str[1]
        m == CHOOSE v \in 1..12 : PadTwo(v) = str[3]
        d == CHOOSE v \in 1..31 : PadTwo(v) = str[5]
    IN  y * 10000 + m * 100 + d

Lower(c) == IF c = "A" THEN "a" ELSE IF c = "B" THEN "b" ELSE c
LowerAll(s) == [i \in 1..Len(s) |-> Lower(s[i])]

Contains(s, t) ==
    \E i \in 0..(Len(s) - Len(t)) : SubSeq(s, i + 1, i + Len(t)) = t

\* field ILIKE '%term%'
ILike(field, pattern) ==
    Contains(LowerAll(field),
             LowerAll(SubSeq(pattern, 2, Len(pattern) - 1)))

Dot(a, b) == SumSeq([i \in 1..Len(a) |-> a[i] * b[i]])

Sgn(x) == IF x > 0 THEN 1 ELSE IF x < 0 THEN -1 ELSE 0

\* cosine similarity of a and q, kept as the fraction
\* sgn(a.q) * (a.q)^2 / (|a|^2 |q|^2), which orders like the cosine itself
Similarity(a, q) ==
    [num |-> Sgn(Dot(a, q)) * Dot(a, q) * Dot(a, q),
     den |-> Dot(a, a) * Dot(q, q)]

SimLeq(x, y) == x.num * y.den <= y.num * x.den

\* number of placeholders in the clauses before the i-th
Offset(sql, i) == Placeholders(SubSeq(sql, 1, i - 1))

MetaField(metadata, key) ==
    CASE key = "genres" -> metadata.genres
      [] key = "keywords" -> metadata.keywords
      [] key = "original_language" -> metadata.original_language
      [] key = "release_date" -> metadata.release_date
      [] key = "created_at" -> metadata.created_at

ClauseHolds(row, c, ps) ==
    CASE c.cl = IlikeClause("", 0).cl ->
            \E j \in 1..Len(ps) : ILike(MetaField(row.metadata, c.key), ps[j].str)
      [] c.cl = LangClause.cl ->
            row.metadata.original_language = ps[1].str
      [] c.cl = BetweenClause("").cl ->
            /\ MetaField(row.metadata, c.key) # <<>>
            /\ ParseDate(ps[1].str) <= ParseDate(MetaField(row.metadata, c.key))
            /\ ParseDate(MetaField(row.metadata, c.key)) <= ParseDate(ps[2].str)
      [] OTHER -> TRUE

RowMatches(row, sql, params) ==
    \A i \in 1..Len(sql) :
        ClauseHolds(row, sql[i],
                    SubSeq(params, Offset(sql, i) + 1, Offset(sql, i) + sql[i].ph))

\* the orders ORDER BY embedding <=> q may produce for a set of rows
MutOrderedBy(rows, q) ==
    {s \in [1..Cardinality(rows) -> rows] :
        /\ \A i, j \in DOMAIN s : i # j => s[i] # s[j]
        /\ \A i \in 1..(Len(s) - 1) :
              SimLeq(Similarity(s[i].embedding, q),
                     Similarity(s[i + 1].embedding, q))}

OrderedBy(rows, q) ==
    {s \in [1..Cardinality(rows) -> rows] :
        /\ \A i, j \in DOMAIN s : i # j => s[i] # s[j]
        /\ \A i \in 1..(Len(s) - 1) :
              SimLeq(Similarity(s[i + 1].embedding, q),
                     Similarity(s[i].embedding, q))}

\* the selected columns of one row
Selected(row, qsel) ==
    [id |-> row.id, title |-> row.title, metadata |-> row.metadata,
     contents |-> row.contents,
     similarity |-> Similarity(row.embedding, qsel)]

\* cur.execute(sql_query, params); cur.fetchall(): the set of row
\* sequences the store may return, or an error
Execute(sql, params, tbl) ==
    LET n == Len(sql)
        qsel == DecodeVector(params[1])
        qord == DecodeVector(params[Offset(sql, n) + 1])
        lim == params[Offset(sql, n) + 2].nums[1]
        hits == {r \in tbl : RowMatches(r, sql, params)}
    IN  IF Placeholders(sql) # Len(params) \/ lim < 0
        THEN [ok |-> FALSE, rows |-> {}]
        ELSE [ok |-> TRUE,
              rows |-> {[i \in 1..Min(lim, Len(s)) |-> Selected(s[i], qsel)] :
                            s \in OrderedBy(hits, qord)}]

(***************************************************************************)
(* The embedding model.  model.encode is a fixed function of the text it   *)
(* is given; here the vector <<spaces, other characters>> of a text.       *)
(***************************************************************************)
CountSpaces(text) == Cardinality({i \in 1..Len(text) : text[i] = " "})

ModelEncode(text) == <<CountSpaces(text), Len(text) - CountSpaces(text)>>

\* get_embedding_local after the model is loaded
Embedding(text) == ModelEncode(ReplaceNewlines(text))

(***************************************************************************)
(* Inputs.                                                                 *)
(***************************************************************************)
QueryTexts == {<<"k">>, <<"k", "\n", "p">>}

GenreValues == {<<>>, <<"a">>, <<"a", ",", " ", "B">>}
KeywordValues == {<<>>, <<"b">>}
LanguageValues == {<<"e", "n">>}
TimeRangeValues == {<<Year(1960), Year(2020)>>, <<Year(2020), Year(1960)>>,
                    <<NotAYear, Year(2020)>>}

Items ==
    {Item("genres", v, <<>>) : v \in GenreValues}
    \cup {Item("keywords", v, <<>>) : v \in KeywordValues}
    \cup {Item("original_language", v, <<>>) : v \in LanguageValues}
    \cup {Item("time_range", <<>>, v) : v \in TimeRangeValues}
    \cup {Item("popularity", <<"a">>, <<>>)}

\* dicts of at most MaxKeys entries: sequences of items with distinct keys
FilterMaps ==
    UNION {{m \in [1..n -> Items] :
                \A i, j \in 1..n : i # j => m[i].key # m[j].key} :
           n \in 0..MaxKeys}

Date(y, m, d) == [y |-> y, m |-> m, d |-> d]

\* the time_range argument of VectorStore.search: None or two datetimes
StoreTimeRanges == {<<>>, <<Date(1970, 1, 1), Date(2024, 12, 31)>>,
                    <<Date(2024, 12, 31), Date(1970, 1, 1)>>}

Limits == (-1)..MaxLimit

Meta(g, k, l, rd, ca) ==
    [genres |-> g, keywords |-> k, original_language |-> l,
     release_date |-> rd, created_at |-> ca]

Record(i, t, md, e) ==
    [id |-> i, title |-> t, metadata |-> md, contents |-> t, embedding |-> e]

\* the records a DataFrame handed to upsert may hold
Catalogue ==
    {Record(101, <<"x">>,
            Meta(<<"A", ",", "b">>, <<"b">>, <<"e", "n">>,
                 <<>>, IsoFormat(Date(1999, 3, 31))), <<1, 2>>),
     Record(102, <<"y">>,
            Meta(<<"b">>, <<"a">>, <<"f", "r">>,
                 DateStr(1985, 7, 3), IsoFormat(Date(1985, 7, 3))), <<0, 1>>),
     Record(103, <<"z">>,
            Meta(<<"a">>, <<>>, <<"e", "n">>,
                 DateStr(2021, 1, 1), <<>>), <<2, -1>>)}

Batches ==
    UNION {{b \in [1..n -> Catalogue] :
                \A i, j \in 1..n : i # j => b[i] # b[j]} :
           n \in 1..MaxBatch}

(***************************************************************************)
(* The record of the call in progress or just returned.  An optional       *)
(* list or dict argument is [none, val]: none for None, val its entries.   *)
(***************************************************************************)
None == [none |-> TRUE, val |-> <<>>]
Some(v) == [none |-> FALSE, val |-> v]

NoCall ==
    [op |-> "", status |-> "", text |-> <<>>, limit |-> 0,
     metadata |-> <<>>, time_range |-> <<>>,
     sql |-> <<>>, params |-> <<>>, queried |-> FALSE, embeds |-> 0,
     fetched |-> <<>>, results |-> <<>>,
     ids |-> None, filter |-> None, delete_all |-> FALSE,
     storeOps |-> <<>>, before |-> {}, batch |-> <<>>, repeat |-> FALSE]

\* a thread outside get_embedding_local
IdleThread == [pc |-> "idle", text |-> <<>>, result |-> <<>>]

Init ==
    /\ table = {}
    /\ nextId = 1
    /\ call = NoCall
    /\ hasModel = FALSE
    /\ loads = 0
    /\ tpc = [t \in 1..NumThreads |-> IdleThread]
    /\ queries = <<>>
    /\ qidx = 0
    /\ spc = "idle"
    /\ conn = 0
    /\ openConns = {}
    /\ connSeq = 0
    /\ reqs = <<>>

\* the caller takes the result; the call record is dropped
Return ==
    /\ call # NoCall
    /\ call' = NoCall
    /\ UNCHANGED <<storeVars, modelVars, driverVars>>

(***************************************************************************)
(* Upsert.                                                                 *)
(***************************************************************************)
MaxSerial == 4      \* last value the id sequence hands out

\* INSERT ... ON CONFLICT (id) DO UPDATE SET ...: a row with this id is
\* replaced, otherwise the row is added
InsertOrUpdate(tbl, row) == {r \in tbl : r.id # row.id} \cup {row}

\* VectorDB.upsert: the statement names (title, metadata, contents,
\* embedding), so id is the next value of the SERIAL sequence
RECURSIVE UpsertRowsDB(_, _, _)
UpsertRowsDB(tbl, serial, records_df) ==
    IF records_df = <<>> THEN [table |-> tbl, nextId |-> serial]
    ELSE UpsertRowsDB(
            InsertOrUpdate(tbl, [Head(records_df) EXCEPT !.id = serial]),
            serial + 1, Tail(records_df))

\* VectorStore.upsert: "insert or update records", keyed by the record's id
RECURSIVE UpsertRowsStore(_, _)
UpsertRowsStore(tbl, records) ==
    IF records = <<>> THEN tbl
    ELSE UpsertRowsStore(InsertOrUpdate(tbl, Head(records)), Tail(records))

\* upsert is called with no call pending, or straight after another upsert
\* returned, whose record is then still in call
CanUpsert == call = NoCall \/ call.op \in {"VectorDB.upsert", "VectorStore.upsert"}

\* this call repeats the call before it: same method, same records
Repeats(op, records) == call.op = op /\ call.batch = records

VectorDBUpsert(records_df) ==
    /\ CanUpsert
    /\ nextId + Len(records_df) - 1 <= MaxSerial
    /\ Cardinality(table) + Len(records_df) <= MaxRows
    /\ LET r == UpsertRowsDB(table, nextId, records_df)
       IN  /\ table' = r.table
           /\ nextId' = r.nextId
    /\ call' = [NoCall EXCEPT !.op = "VectorDB.upsert", !.status = "ok",
                              !.batch = records_df, !.before = table,
                              !.repeat = Repeats("VectorDB.upsert", records_df)]
    /\ UNCHANGED <<modelVars, driverVars>>

VectorStoreUpsert(df) ==
    /\ CanUpsert
    /\ Cardinality(UpsertRowsStore(table, df)) <= MaxRows
    /\ table' = UpsertRowsStore(table, df)
    /\ call' = [NoCall EXCEPT !.op = "VectorStore.upsert", !.status = "ok",
                              !.batch = df, !.before = table,
                              !.repeat = Repeats("VectorStore.upsert", df)]
    /\ UNCHANGED <<nextId, modelVars, driverVars>>

(***************************************************************************)
(* VectorStore.delete.                                                     *)
(***************************************************************************)

\* bool(x) of a list or dict argument
Truthy(x) == ~x.none /\ x.val # <<>>

BoolInt(b) == IF b THEN 1 ELSE 0

\* sum(bool(x) for x in (ids, metadata_filter, delete_all))
CriteriaCount(ids, metadata_filter, delete_all) ==
    BoolInt(Truthy(ids)) + BoolInt(Truthy(metadata_filter)) + BoolInt(delete_all)

MutDeleteRejects(ids, metadata_filter, delete_all) ==
    CriteriaCount(ids, metadata_filter, delete_all) = 0

\* the check that raises ValueError
DeleteRejects(ids, metadata_filter, delete_all) ==
    CriteriaCount(ids, metadata_filter, delete_all) # 1

\* vec_client.delete_all / delete_by_ids / delete_by_metadata
DeleteAll(tbl) == {}
DeleteByIds(tbl, ids) == {r \in tbl : r.id \notin Range(ids)}
DeleteByMetadata(tbl, filter) ==
    {r \in tbl : ~(\A i \in 1..Len(filter) :
                      MetaField(r.metadata, filter[i].key) = filter[i].sval)}

DeleteIds == {None, Some(<<>>), Some(<<101>>), Some(<<1, 102>>)}
DeleteFilters == {None, Some(<<>>),
                  Some(<<Item("original_language", <<"e", "n">>, <<>>)>>)}

Delete(ids, metadata_filter, delete_all) ==
    /\ call = NoCall
    /\ LET c == [NoCall EXCEPT !.op = "VectorStore.delete", !.ids = ids,
                               !.filter = metadata_filter,
                               !.delete_all = delete_all, !.before = table]
       IN  IF DeleteRejects(ids, metadata_filter, delete_all)
           THEN /\ call' = [c EXCEPT !.status = "raised"]
                /\ table' = table
           ELSE IF delete_all
           THEN /\ call' = [c EXCEPT !.status = "ok",
                                     !.storeOps = <<"delete_all">>]
                /\ table' = DeleteAll(table)
           ELSE IF Truthy(ids)
           THEN /\ call' = [c EXCEPT !.status = "ok",
                                     !.storeOps = <<"delete_by_ids">>]
                /\ table' = DeleteByIds(table, ids.val)
           ELSE IF Truthy(metadata_filter)
           THEN /\ call' = [c EXCEPT !.status = "ok",
                                     !.storeOps = <<"delete_by_metadata">>]
                /\ table' = DeleteByMetadata(table, metadata_filter.val)
           ELSE /\ call' = [c EXCEPT !.status = "ok"]
                /\ table' = table
    /\ UNCHANGED <<nextId, modelVars, driverVars>>

NextStore ==
    \/ \E b \in Batches : VectorDBUpsert(b)
    \/ \E b \in Batches : VectorStoreUpsert(b)
    \/ \E i \in DeleteIds, f \in DeleteFilters, a \in BOOLEAN : Delete(i, f, a)
    \/ Return

SpecStore == Init /\ [][NextStore]_vars

(***************************************************************************)
(* Search.  fail names what goes wrong outside the program in this call:   *)
(* "embed" (model.encode raises), "store" (cur.execute raises), "none".    *)
(***************************************************************************)
Failures == {"none", "embed", "store"}

\* return results: the rows fetched, as fetched
Returned(rows) == rows

\* everything after the statement is built: cur.execute, cur.fetchall and
\* the return; the set of call records the call may end with
Executed(c, built, tbl, fail) ==
    LET ex == Execute(built.sql, built.params, tbl)
        q == [c EXCEPT !.sql = built.sql, !.params = built.params,
                       !.queried = TRUE]
    IN  IF fail = "store" \/ ~ex.ok
        THEN {[q EXCEPT !.status = "raised"]}
        ELSE {[q EXCEPT !.status = "ok", !.fetched = rows,
                        !.results = Returned(rows)] : rows \in ex.rows}

\* VectorDB.search(conn, query_text, limit, metadata)
SearchDB(query_text, limit, metadata, tbl, fail) ==
    LET c == [NoCall EXCEPT !.op = "VectorDB.search", !.text = query_text,
                            !.limit = limit, !.metadata = metadata,
                            !.before = tbl, !.embeds = 1]
        built == BuildDB(Embedding(query_text), limit, metadata)
    IN  IF fail = "embed" THEN {[c EXCEPT !.status = "raised"]}
        ELSE IF ~built.ok
        THEN {[c EXCEPT !.status = "raised", !.sql = built.sql,
                        !.params = built.params]}
        ELSE Executed(c, built, tbl, fail)

\* VectorStore.search(conn, query_text, limit, metadata_filter, time_range)
SearchStore(query_text, limit, metadata_filter, time_range, tbl, fail) ==
    LET c == [NoCall EXCEPT !.op = "VectorStore.search", !.text = query_text,
                            !.limit = limit, !.metadata = metadata_filter,
                            !.time_range = time_range,
                            !.before = tbl, !.embeds = 1]
        built == BuildStore(Embedding(query_text), limit, metadata_filter,
                            time_range)
    IN  IF fail = "embed" THEN {[c EXCEPT !.status = "raised"]}
        ELSE Executed(c, built, tbl, fail)

\* the first lines of get_embedding_local, run by one caller alone
LoadIfMissing ==
    /\ hasModel' = TRUE
    /\ loads' = IF hasModel THEN loads ELSE loads + 1
    /\ UNCHANGED tpc

\* a search whose collaborators (the model, the connection) work
VectorDBSearch(query_text, limit, metadata) ==
    /\ call = NoCall
    /\ call' \in SearchDB(query_text, limit, metadata, table, "none")
    /\ LoadIfMissing
    /\ UNCHANGED <<storeVars, driverVars>>

VectorStoreSearch(query_text, limit, metadata_filter, time_range) ==
    /\ call = NoCall
    /\ call' \in SearchStore(query_text, limit, metadata_filter, time_range,
                             table, "none")
    /\ LoadIfMissing
    /\ UNCHANGED <<storeVars, driverVars>>

\* call = NoCall is each search's own guard; it is repeated here so that
\* the arguments are enumerated only when a search can start
NextSearch ==
    \/ \E b \in Batches : VectorStoreUpsert(b)
    \/ /\ call = NoCall
       /\ \E t \in QueryTexts, l \in Limits, m \in FilterMaps :
             VectorDBSearch(t, l, m)
    \/ /\ call = NoCall
       /\ \E t \in QueryTexts, l \in Limits, m \in FilterMaps,
             r \in StoreTimeRanges :
             VectorStoreSearch(t, l, m, r)
    \/ Return

SpecSearch == Init /\ [][NextSearch]_vars

(***************************************************************************)
(* get_embedding_local called from several threads on one store object.    *)
(* Nothing in the method takes a lock, so the hasattr test, the            *)
(* construction and assignment of self.model, and the encoding are         *)
(* separate steps of each caller.                                          *)
(***************************************************************************)
Threads == 1..NumThreads

EmbedCall(t, text) ==
    /\ tpc[t].pc = "idle"
    /\ tpc' = [tpc EXCEPT ![t] = [pc |-> "check", text |-> text,
                                  result |-> <<>>]]
    /\ UNCHANGED <<hasModel, loads, storeVars, call, driverVars>>

\* if not hasattr(self, 'model'):
EmbedCheck(t) ==
    /\ tpc[t].pc = "check"
    /\ tpc' = [tpc EXCEPT ![t].pc = IF hasModel THEN "encode" ELSE "load"]
    /\ UNCHANGED <<hasModel, loads, storeVars, call, driverVars>>

\* self.model = SentenceTransformer(...); self.model.to(device)
EmbedLoad(t) ==
    /\ tpc[t].pc = "load"
    /\ hasModel' = TRUE
    /\ loads' = loads + 1
    /\ tpc' = [tpc EXCEPT ![t].pc = "encode"]
    /\ UNCHANGED <<storeVars, call, driverVars>>

\* text.replace, self.model.encode, return embedding
EmbedEncode(t) ==
    /\ tpc[t].pc = "encode"
    /\ tpc' = [tpc EXCEPT ![t].pc = "done",
                          ![t].result = Embedding(tpc[t].text)]
    /\ UNCHANGED <<hasModel, loads, storeVars, call, driverVars>>

EmbedReturn(t) ==
    /\ tpc[t].pc = "done"
    /\ tpc' = [tpc EXCEPT ![t] = IdleThread]
    /\ UNCHANGED <<hasModel, loads, storeVars, call, driverVars>>

NextEmbed ==
    \E t \in Threads :
        \/ \E text \in QueryTexts : EmbedCall(t, text)
        \/ EmbedCheck(t)
        \/ EmbedLoad(t)
        \/ EmbedEncode(t)
        \/ EmbedReturn(t)

SpecEmbed == Init /\ [][NextEmbed]_vars

(***************************************************************************)
(* search_movies(queries).  A query is [overview, genres, keywords], the   *)
(* last two being query.get(key, '').  reqs records, per loop iteration,   *)
(* the connection it opened and how far it got.  Whether the interpreter   *)
(* closes a connection object once no name refers to it is left open.      *)
(***************************************************************************)
MoviesLimit == 5

MoviesTimeRange == <<Date(1970, 1, 1), Date(2024, 12, 31)>>

Query(o, g, k) == [overview |-> o, genres |-> g, keywords |-> k]

MovieQueries == {Query(<<"k">>, <<>>, <<"b">>),
                 Query(<<"k", "\n", "p">>, <<"a">>, <<>>)}

QueryLists == UNION {[1..n -> MovieQueries] : n \in 1..MaxQueries}

\* the connections left open when the name conn stops referring to c
Unreferenced(c) ==
    IF c = 0 THEN {openConns} ELSE {openConns, openConns \ {c}}

\* vector_store = VectorStore(); the loop starts
MoviesStart(qs) ==
    /\ spc = "idle"
    /\ call = NoCall
    /\ queries' = qs
    /\ qidx' = 1
    /\ spc' = "loop"
    /\ reqs' = <<>>
    /\ hasModel' = FALSE
    /\ UNCHANGED <<storeVars, call, loads, tpc, conn, openConns, connSeq>>

\* conn = psycopg2.connect(...)
MoviesConnect ==
    /\ spc = "loop"
    /\ qidx <= Len(queries)
    /\ connSeq' = connSeq + 1
    /\ conn' = connSeq'
    /\ \E rest \in Unreferenced(conn) : openConns' = rest \cup {connSeq'}
    /\ reqs' = Append(reqs, [conn |-> connSeq', status |-> "active"])
    /\ spc' = "connected"
    /\ UNCHANGED <<storeVars, call, modelVars, queries, qidx>>

\* results = vector_store.search(conn=conn, ...)
MoviesSearch(fail) ==
    /\ spc = "connected"
    /\ LET q == queries[qidx]
           metadata_filter == <<Item("genres", q.genres, <<>>),
                                Item("keywords", q.keywords, <<>>)>>
       IN  call' \in SearchStore(q.overview, MoviesLimit, metadata_filter,
                                 MoviesTimeRange, table, fail)
    /\ LoadIfMissing
    /\ IF call'.status = "ok"
       THEN /\ spc' = "searched"
            /\ reqs' = reqs
       ELSE /\ spc' = "raised"
            /\ reqs' = [reqs EXCEPT ![qidx].status = "failed"]
    /\ UNCHANGED <<storeVars, queries, qidx, conn, openConns, connSeq>>

\* the results are printed; the iteration ends
MoviesDisplay ==
    /\ spc = "searched"
    /\ reqs' = [reqs EXCEPT ![qidx].status = "done"]
    /\ qidx' = qidx + 1
    /\ spc' = "loop"
    /\ call' = NoCall
    /\ UNCHANGED <<storeVars, modelVars, queries, conn, openConns, connSeq>>

\* the loop is over, or an exception leaves the function: its names go
MoviesExit ==
    /\ \/ spc = "loop" /\ qidx > Len(queries)
       \/ spc = "raised"
    /\ spc' = "returned"
    /\ conn' = 0
    /\ openConns' \in Unreferenced(conn)
    /\ call' = NoCall
    /\ UNCHANGED <<storeVars, modelVars, queries, qidx, connSeq, reqs>>

NextMovies ==
    \/ /\ spc = "idle"
       /\ \E b \in Batches : VectorStoreUpsert(b)
    \/ /\ spc = "idle"
       /\ Return
    \/ \E qs \in QueryLists : MoviesStart(qs)
    \/ MoviesConnect
    \/ \E f \in Failures : MoviesSearch(f)
    \/ MoviesDisplay
    \/ MoviesExit

SpecMovies == Init /\ [][NextMovies]_vars

(***************************************************************************)
(* Properties.                                                             *)
(***************************************************************************)
IsSearch == call.op \in {"VectorDB.search", "VectorStore.search"}
IsUpsert == call.op \in {"VectorDB.upsert", "VectorStore.upsert"}

\* how many of the three delete criteria the call names: a non-empty list of
\* ids, a non-empty filter, delete_all
CriteriaGiven ==
    Cardinality({k \in {"ids", "filter", "delete_all"} :
        \/ k = "ids" /\ call.ids # None /\ call.ids.val # <<>>
        \/ k = "filter" /\ call.filter # None /\ call.filter.val # <<>>
        \/ k = "delete_all" /\ call.delete_all})

\* C1: a delete call naming zero or at least two of the criteria (ids,
\* metadata filter, delete_all) raises before any deletion is issued to the
\* store and leaves the stored records as they were; a call naming exactly
\* one criterion issues exactly one deletion.
DeleteExactlyOneCriterion ==
    call.op = "VectorStore.delete" =>
        /\ CriteriaGiven # 1 =>
              /\ call.status = "raised"
              /\ call.storeOps = <<>>
              /\ table = call.before
        /\ CriteriaGiven = 1 =>
              /\ call.status = "ok"
              /\ Len(call.storeOps) = 1

DeleteTwoCriteriaRejected ==
    /\ call.op = "VectorStore.delete"
    /\ CriteriaGiven >= 2
    /\ call.status = "raised"
    /\ call.before # {}
    /\ table = call.before

\* a time_range of a non-numeric year, or of a start year after the end year
Malformed(tr) == ~tr[1].num \/ ~tr[2].num \/ tr[1].y > tr[2].y

\* datetime a is after datetime b
After(a, b) ==
    a.y * 10000 + a.m * 100 + a.d > b.y * 10000 + b.m * 100 + b.d

\* the call's time range is malformed: the time_range entry of the metadata
\* of VectorDB.search, the time_range argument of VectorStore.search
HasMalformedRange ==
    \/ /\ call.op = "VectorDB.search"
       /\ \E i \in 1..Len(call.metadata) :
             /\ call.metadata[i].key = "time_range"
             /\ Malformed(call.metadata[i].tr)
    \/ /\ call.op = "VectorStore.search"
       /\ call.time_range # <<>>
       /\ After(call.time_range[1], call.time_range[2])

\* C2: a search whose time range is malformed (non-numeric year, or start
\* after end) raises and the store is not queried in that call.
MalformedRangeNeverQueried ==
    (IsSearch /\ HasMalformedRange) =>
        (call.status = "raised" /\ ~call.queried)

\* C3: in every parameter list a search sends, the first parameter (the
\* query vector of the SELECT similarity) and the second-to-last (the query
\* vector of ORDER BY) are the same encoded value.
SameVectorEncodingTwice ==
    (IsSearch /\ call.queried) =>
        call.params[1] = call.params[Len(call.params) - 1]

\* the statement and parameters the call's builder makes of a filter map
Rebuilt(m) ==
    IF call.op = "VectorDB.search"
    THEN BuildDB(Embedding(call.text), call.limit, m)
    ELSE BuildStore(Embedding(call.text), call.limit, m, call.time_range)

\* the filter maps holding the pairs of m, in any insertion order
Reorderings(m) ==
    {p \in [1..Len(m) -> Range(m)] : Range(p) = Range(m)}

\* C4: two filter maps holding the same key/value pairs in different
\* insertion orders give the same predicate text and the same parameter list.
InsertionOrderIrrelevant ==
    (IsSearch /\ call.queried) =>
        \A p \in Reorderings(call.metadata) :
            /\ Rebuilt(p).sql = call.sql
            /\ Rebuilt(p).params = call.params

\* the non-empty terms of a genres or keywords value
NonEmptyTerms(value) ==
    Cardinality({i \in 1..Len(Split(value)) : Strip(Split(value)[i]) # <<>>})

TermCount(m) ==
    SumSeq([i \in 1..Len(m) |->
               IF m[i].key \in {"genres", "keywords"}
               THEN NonEmptyTerms(m[i].sval) ELSE 0])

HasKey(m, k) == \E i \in 1..Len(m) : m[i].key = k

\* the keys the call's builder recognizes, all with well-formed values
WellFormedFilters ==
    /\ ~HasKey(call.metadata, "popularity")
    /\ ~HasMalformedRange
    /\ call.op = "VectorStore.search" => ~HasKey(call.metadata, "time_range")

RangeSet ==
    IF call.op = "VectorDB.search" THEN HasKey(call.metadata, "time_range")
    ELSE call.time_range # <<>>

\* C5: for a filter map of recognized, well-formed keys the parameter list
\* has 2 + (genre and keyword terms) + (1 if original_language is set)
\* + (2 if time_range is set) + 1 entries.
ParameterCount ==
    (IsSearch /\ call.queried /\ WellFormedFilters) =>
        Len(call.params) =
            2 + TermCount(call.metadata)
              + BoolInt(HasKey(call.metadata, "original_language"))
              + 2 * BoolInt(RangeSet) + 1

EmptyTermsItem(it) ==
    it.key \in {"genres", "keywords"} /\ NonEmptyTerms(it.sval) = 0

\* the map without its genres and keywords entries that hold no term
WithoutEmptyTerms(m) == SelectSeq(m, LAMBDA it : ~EmptyTermsItem(it))

\* C6: a genres or keywords value that is empty, or holds no non-empty term,
\* adds no sub-predicate and no parameter: the statement and parameters are
\* those built when the key is absent.
EmptyTermsAddNothing ==
    (IsSearch /\ call.queried) =>
        /\ Rebuilt(WithoutEmptyTerms(call.metadata)).sql = call.sql
        /\ Rebuilt(WithoutEmptyTerms(call.metadata)).params = call.params

\* C7: a search that returns, returns at most limit entries, their
\* similarity scores do not increase from one position to the next, and
\* they are the rows the store produced, in the store's order.
ResultsRankedAndCapped ==
    (IsSearch /\ call.status = "ok") =>
        /\ Len(call.results) <= call.limit
        /\ \A i \in 1..(Len(call.results) - 1) :
              SimLeq(call.results[i + 1].similarity,
                     call.results[i].similarity)
        /\ call.results = call.fetched

RankedSearchTruncated ==
    /\ IsSearch
    /\ call.status = "ok"
    /\ call.metadata # <<>>
    /\ Len(call.results) = 2
    /\ Len(call.results) = call.limit
    /\ Cardinality({r \in call.before : RowMatches(r, call.sql, call.params)}) = 3
    /\ ~SimLeq(call.results[1].similarity, call.results[2].similarity)

SameFields(r, rec) ==
    /\ r.title = rec.title
    /\ r.metadata = rec.metadata
    /\ r.contents = rec.contents
    /\ r.embedding = rec.embedding

\* C8: an upsert that repeats the upsert before it, with the same records,
\* leaves the store as the first call left it: as many rows, no id twice,
\* every record's fields as in the latest call.
UpsertIdempotent ==
    (IsUpsert /\ call.repeat) =>
        /\ Cardinality(table) = Cardinality(call.before)
        /\ \A r1, r2 \in table : r1.id = r2.id => r1 = r2
        /\ \A i \in 1..Len(call.batch) :
              \E r \in table : SameFields(r, call.batch[i])

\* C9: however the calls of get_embedding_local interleave, the model is
\* loaded at most once over the object's lifetime.
ModelLoadedAtMostOnce == loads <= 1

\* C10: the connection of a search request that has finished, whether it
\* returned or raised, is no longer open.
FinishedRequestsReleased ==
    \A i \in 1..Len(reqs) :
        reqs[i].status \in {"done", "failed"} => reqs[i].conn \notin openConns

\* the time_range entry of the call's metadata is two years, start <= end
YearRangeItem(it) ==
    /\ it.key = "time_range"
    /\ it.tr[1].num /\ it.tr[2].num
    /\ it.tr[1].y <= it.tr[2].y

\* the positions of the BETWEEN clauses in the call's statement
BetweenAt ==
    {i \in 1..Len(call.sql) : call.sql[i].cl = BetweenClause("").cl}

\* C11: a time_range of two years, start <= end, is resolved to January 1 of
\* the start year and December 31 of the end year, and exactly these two
\* bounds are bound to the one BETWEEN predicate, start first, end second.
YearRangeBounds ==
    (call.op = "VectorDB.search" /\ call.queried) =>
        \A k \in 1..Len(call.metadata) :
            YearRangeItem(call.metadata[k]) =>
                /\ Cardinality(BetweenAt) = 1
                /\ \A i \in BetweenAt :
                      /\ call.sql[i].ph = 2
                      /\ call.params[Offset(call.sql, i) + 1] =
                            TextParam(<<ToString(call.metadata[k].tr[1].y),
                                        "-", "01", "-", "01">>)
                      /\ call.params[Offset(call.sql, i) + 2] =
                            TextParam(<<ToString(call.metadata[k].tr[2].y),
                                        "-", "12", "-", "31">>)

YearRangeResolved ==
    /\ call.op = "VectorDB.search"
    /\ call.status = "ok"
    /\ \E k \in 1..Len(call.metadata) :
          /\ YearRangeItem(call.metadata[k])
          /\ call.metadata[k].tr = <<Year(1960), Year(2020)>>
    /\ \E i \in BetweenAt :
          call.params[Offset(call.sql, i) + 2].str =
              <<"2020", "-", "12", "-", "31">>
    /\ Len(call.results) > 0

\* C12: a search validates limit > 0 first: with limit <= 0 it raises before
\* the query text is embedded and before the store is queried; an accepted
\* call embeds the query text exactly once.
LimitValidatedFirst ==
    IsSearch =>
        /\ call.limit <= 0 =>
              /\ call.status = "raised"
              /\ call.embeds = 0
              /\ ~call.queried
        /\ call.limit > 0 => call.embeds = 1

\* what a bound parameter is, read off its value
Role(p) ==
    CASE p.kind = "list" -> "vector"
      [] p.kind = "int" -> "limit"
      [] OTHER ->
            IF Len(p.str) >= 1 /\ p.str[1] = "["
            THEN "vector"
            ELSE IF Len(p.str) >= 2 /\ p.str[1] = "%" /\ p.str[Len(p.str)] = "%"
            THEN "pattern"
            ELSE IF Len(p.str) >= 5 /\ p.str[2] = "-" /\ p.str[4] = "-"
            THEN "bound"
            ELSE "value"

\* what each placeholder of a clause stands for, in the order of the text
ClauseRoles(c) ==
    CASE c.cl \in {SelectDB.cl, SelectStore.cl} -> <<"vector">>
      [] c.cl = IlikeClause("", 0).cl -> [j \in 1..c.ph |-> "pattern"]
      [] c.cl = LangClause.cl -> <<"value">>
      [] c.cl = BetweenClause("").cl -> <<"bound", "bound">>
      [] c.cl = OrderLimitClause.cl -> <<"vector", "limit">>

RECURSIVE PlaceholderRoles(_)
PlaceholderRoles(sql) ==
    IF sql = <<>> THEN <<>>
    ELSE ClauseRoles(Head(sql)) \o PlaceholderRoles(Tail(sql))

\* the terms of the map's entry for a key, split on commas and trimmed
TermsOf(m, key) ==
    LET k == CHOOSE i \in 1..Len(m) : m[i].key = key
        parts == Split(m[k].sval)
    IN  [j \in 1..Len(parts) |-> Strip(parts[j])]

\* C13: for every filter map the statement sent has as many placeholders as
\* the parameter list has entries, and the i-th placeholder is bound to a
\* parameter of its role: the query vector first, then one parameter per
\* filter term or bound in the order of the sub-predicates in the text (the
\* terms of a genres or keywords predicate in the order of the value), then
\* the query vector of ORDER BY, then the limit.
PlaceholdersMatchParameters ==
    (IsSearch /\ call.queried) =>
        /\ Placeholders(call.sql) = Len(call.params)
        /\ \A i \in 1..Len(call.params) :
              Role(call.params[i]) = PlaceholderRoles(call.sql)[i]
        /\ Role(call.params[1]) = "vector"
        /\ Role(call.params[Len(call.params) - 1]) = "vector"
        /\ Role(call.params[Len(call.params)]) = "limit"
        /\ call.params[Len(call.params)].nums = <<call.limit>>
        /\ \A i \in 1..Len(call.sql) :
              call.sql[i].cl = IlikeClause("", 0).cl =>
                  /\ HasKey(call.metadata, call.sql[i].key)
                  /\ call.sql[i].ph = Len(TermsOf(call.metadata, call.sql[i].key))
                  /\ \A j \in 1..call.sql[i].ph :
                        call.params[Offset(call.sql, i) + j].str =
                            <<"%">> \o TermsOf(call.metadata, call.sql[i].key)[j]
                                    \o <<"%">>

SeveralTermsAndUnknownKey ==
    /\ IsSearch
    /\ call.status = "ok"
    /\ HasKey(call.metadata, "popularity")
    /\ \E i \in 1..Len(call.sql) :
          call.sql[i].cl = IlikeClause("", 0).cl /\ call.sql[i].ph = 2
    /\ Len(call.params) = 5
    /\ Len(call.results) > 0

====
